---- MODULE Spec2Model ----
(***************************************************************************)
(* Model of store/app/routers/stripe.py: the five HTTP handlers of the     *)
(* Stripe router, the payment processor they call and the order table      *)
(* they read and write through Crud.                                       *)
(*                                                                         *)
(* A handler is split at its await points on Crud: the code between two    *)
(* awaits runs without interruption on the event loop (the stripe SDK      *)
(* calls are blocking), and another request may run while a handler        *)
(* awaits.  Every external call either returns or raises; which one is     *)
(* chosen nondeterministically.  Request fields that the handlers only     *)
(* pass on to the processor (amount, payment_intent_id, the cancel reason, *)
(* product_id, cancel_url) and order fields that no handler reads back     *)
(* (email, amount, shipping address, quantity) are left out.               *)
(***************************************************************************)
EXTENDS Integers, Sequences, FiniteSets, TLC

\* ---- bounds -------------------------------------------------------------
MaxInFlight == 2      \* handlers that await at the same time
MaxOrders == 2        \* create_order calls in a run, so rows of the order table
MaxRefunds == 1       \* refunds the processor may create in a run

\* ---- inputs -------------------------------------------------------------
Users == {"u1", "u2"}

\* order ids a caller may put in the path; the table holds an order of id i
\* once it has i rows
OrderIds == 1..MaxOrders

CheckoutSessionIds == {"cs_1", "cs_2"}

\* the checkout session object the processor puts in the event
\* (create_checkout_session sets client_reference_id to the buyer's id)
SessionObject(sid) ==
    IF sid = "cs_1"
    THEN [id |-> "cs_1", client_reference_id |-> "u1", payment_intent |-> "pi_1"]
    ELSE [id |-> "cs_2", client_reference_id |-> "u2", payment_intent |-> "pi_2"]

EventTypes == {"checkout.session.completed", "payment_intent.succeeded", "customer.created"}

\* refund.status as the processor reports it; "" stands for a missing
\* (None or empty) status, both falsy in Python
RefundStatuses == {"succeeded", "pending", ""}

\* ---- values -------------------------------------------------------------
NoOrder == [id |-> 0, user_id |-> "", stripe_checkout_session_id |-> "",
            stripe_payment_intent_id |-> "", status |-> "", stripe_refund_id |-> 0]

NoRefund == [id |-> 0, status |-> ""]

NoData == [none |-> TRUE]

NoResp == [status |-> 0, body |-> "", escaped |-> FALSE]

\* of an order the refund handler has looked up, the fields it reads
OrderRead(order) == [id |-> order.id, user_id |-> order.user_id]

IdleReq == [kind |-> "idle", pc |-> "idle", user |-> "", order_id |-> 0,
            event |-> "", session |-> "", seq |-> 0, refund |-> NoRefund, order |-> OrderRead(NoOrder),
            order_data |-> NoData, calls |-> <<>>, exc |-> "", resp |-> NoResp]

Count(calls, name) == Cardinality({i \in DOMAIN calls : calls[i] = name})

VARIABLES
    orders,       \* the order table behind Crud, row i has id i
    refunds,      \* the number of refunds the processor has created, refund i has id i
    req,          \* the handlers that await: of each its position and locals
    last,         \* the request that has just finished, with its response, until
                  \* the response is sent; IdleReq when none is
    acked,        \* per checkout session: completion events answered with success
    create_calls  \* per checkout session: create_order calls made

vars == <<orders, refunds, req, last, acked, create_calls>>

\* ---- the framework ------------------------------------------------------
\* raise HTTPException(status_code, detail) reaching the framework
HTTPError(code, detail) == [status |-> code, body |-> detail, escaped |-> FALSE]

\* any other exception leaving a handler: the framework answers 500
Unhandled == [status |-> 500, body |-> "Internal Server Error", escaped |-> TRUE]

\* a handler that returns a value
Ok(body) == [status |-> 200, body |-> body, escaped |-> FALSE]

\* str(e) of HTTPException(status_code, detail)
StrHTTPException(code, detail) == ToString(code) \o ": " \o detail

\* The response of a finished handler is sent before the event loop runs the
\* next handler step.  Sending reads and writes nothing the handlers share,
\* so its place among the steps of other requests does not matter.
Sent == last = IdleReq

\* a new request can be taken
Free == Sent /\ Cardinality(req) < MaxInFlight

\* the handler h awaits the answer to the given call
Awaits(h, kind, call) == Sent /\ h \in req /\ h.kind = kind /\ h.pc = call

\* the handler h ends as rec with the given response (h is IdleReq for a
\* request that has not awaited)
Finish(h, rec, response) ==
    /\ req' = req \ {h}
    /\ last' = [rec EXCEPT !.pc = "done", !.resp = response]

\* the handler h goes on as rec to its next await
Await(h, rec) ==
    /\ req' = (req \ {h}) \cup {rec}
    /\ UNCHANGED last

SumCalls == create_calls["cs_1"] + create_calls["cs_2"]

\* ---- Crud ---------------------------------------------------------------
\* crud.get_order(order_id): the row, or None
GetOrder(order_id) == IF order_id \in DOMAIN orders THEN orders[order_id] ELSE NoOrder

\* crud.update_order(order_id, order_data): the row with the given fields replaced
UpdateOrder(order_id, order_data) ==
    [orders EXCEPT ![order_id] = [@ EXCEPT !.stripe_refund_id = order_data.stripe_refund_id,
                                           !.status = order_data.status]]

\* crud.create_order(order_data): a new row
CreateOrder(order_data) ==
    Append(orders, [id |-> Len(orders) + 1,
                    user_id |-> order_data.user_id,
                    stripe_checkout_session_id |-> order_data.stripe_checkout_session_id,
                    stripe_payment_intent_id |-> order_data.stripe_payment_intent_id,
                    status |-> order_data.status,
                    stripe_refund_id |-> 0])

\* ---- POST /create-payment-intent ----------------------------------------
CreatePaymentIntent ==
    /\ Free
    /\ \E raises \in BOOLEAN :
        LET rec == [IdleReq EXCEPT !.kind = "create_payment_intent",
                                   !.calls = <<"PaymentIntent.create">>] IN
        IF raises
        THEN Finish(IdleReq, [rec EXCEPT !.exc = "payment intent failed"], Ok("error: payment intent failed"))
        ELSE Finish(IdleReq, rec, Ok("clientSecret"))
    /\ UNCHANGED <<orders, refunds, acked, create_calls>>

\* ---- PUT /refunds/{order_id} --------------------------------------------
\* a variant that leaves out the ownership test
OrderNotFoundNoOwner(order, user_id) == order = OrderRead(NoOrder)

\* if order is None or order.user_id != user.id
OrderNotFound(order, user_id) == order = OrderRead(NoOrder) \/ order.user_id # user_id

\* a variant that passes the processor's status through
RefundOrderStatusRaw(refund_status) ==
    IF refund_status # "" THEN refund_status ELSE "no status!"

\* "refunded" if (refund.status and refund.status) == "succeeded"
\*            else (refund.status or "no status!")
RefundOrderStatus(refund_status) ==
    IF refund_status # "" /\ refund_status = "succeeded" THEN "refunded"
    ELSE IF refund_status # "" THEN refund_status
    ELSE "no status!"

\* order_data = {"stripe_refund_id": refund.id, "status": ...}
RefundOrderData(refund) ==
    [stripe_refund_id |-> refund.id, status |-> RefundOrderStatus(refund.status)]

\* a variant that hides the exception text
RefundExceptOpaque(e) == HTTPError(500, "Internal Server Error")

\* except Exception as e: raise HTTPException(500, detail=str(e))
RefundExcept(e) == HTTPError(500, e)

\* the handler up to its first await: stripe.Refund.create, then the call of
\* crud.get_order
RefundPaymentIntent ==
    /\ Free
    /\ \E user \in Users, order_id \in OrderIds :
        LET rec == [IdleReq EXCEPT !.kind = "refund", !.user = user, !.order_id = order_id,
                                   !.calls = <<"Refund.create">>] IN
        \/ /\ Finish(IdleReq, [rec EXCEPT !.exc = "refund failed"], RefundExcept("refund failed"))
           /\ UNCHANGED refunds
        \/ /\ refunds < MaxRefunds
           /\ \E st \in RefundStatuses :
                LET refund == [id |-> refunds + 1, status |-> st] IN
                /\ refunds' = refunds + 1
                /\ Await(IdleReq, [rec EXCEPT !.pc = "get_order", !.refund = refund,
                                        !.calls = Append(@, "get_order")])
    /\ UNCHANGED <<orders, acked, create_calls>>

\* crud.get_order answers: the ownership check, the order data, then the call
\* of crud.update_order
RefundGetOrder(h) ==
    /\ Awaits(h, "refund", "get_order")
    /\ \/ Finish(h, [h EXCEPT !.exc = "get_order failed"], RefundExcept("get_order failed"))
       \/ LET order == GetOrder(h.order_id)
              rec == [h EXCEPT !.order = OrderRead(order)] IN
          IF OrderNotFound(OrderRead(order), h.user)
          THEN Finish(h, rec, RefundExcept(StrHTTPException(404, "Order not found")))
          ELSE Await(h, [rec EXCEPT !.pc = "update_order",
                                    !.order_data = RefundOrderData(h.refund),
                                    !.calls = Append(@, "update_order")])
    /\ UNCHANGED <<orders, refunds, acked, create_calls>>

\* crud.update_order answers: the updated order is the response
RefundUpdateOrder(h) ==
    /\ Awaits(h, "refund", "update_order")
    /\ \/ /\ Finish(h, [h EXCEPT !.exc = "update_order failed"], RefundExcept("update_order failed"))
          /\ UNCHANGED orders
       \/ /\ orders' = UpdateOrder(h.order_id, h.order_data)
          /\ Finish(h, h, Ok("order"))
    /\ UNCHANGED <<refunds, acked, create_calls>>

\* ---- POST /webhook ------------------------------------------------------
\* a variant that records the order as paid
CheckoutOrderDataPaid(session) ==
    [user_id |-> session.client_reference_id,
     stripe_checkout_session_id |-> session.id,
     stripe_payment_intent_id |-> session.payment_intent,
     status |-> "paid"]

\* order_data of handle_checkout_session_completed, the fields the order
\* table keeps
CheckoutOrderData(session) ==
    [user_id |-> session.client_reference_id,
     stripe_checkout_session_id |-> session.id,
     stripe_payment_intent_id |-> session.payment_intent,
     status |-> "processing"]

\* a variant that looks for an order of the session before it asks for one
HandleCheckoutSessionCompletedDedup(rec, sid) ==
    LET session == SessionObject(sid)
        rec2 == [rec EXCEPT !.session = sid, !.calls = Append(@, "Session.list_line_items")] IN
    \/ /\ Finish(IdleReq, [rec2 EXCEPT !.exc = "list_line_items failed"], Unhandled)
       /\ UNCHANGED <<create_calls, acked>>
    \/ /\ \E i \in DOMAIN orders : orders[i].stripe_checkout_session_id = sid
       /\ Finish(IdleReq, rec2, Ok("success"))
       /\ acked' = [acked EXCEPT ![sid] = @ + 1]
       /\ UNCHANGED create_calls
    \/ /\ \A i \in DOMAIN orders : orders[i].stripe_checkout_session_id # sid
       /\ SumCalls < MaxOrders
       /\ create_calls' = [create_calls EXCEPT ![sid] = @ + 1]
       /\ Await(IdleReq, [rec2 EXCEPT !.pc = "create_order", !.seq = create_calls[sid] + 1,
                                !.order_data = CheckoutOrderData(session),
                                !.calls = Append(@, "create_order")])
       /\ UNCHANGED acked

\* handle_checkout_session_completed up to its await: list_line_items, the
\* order data, then the call of crud.create_order
HandleCheckoutSessionCompleted(rec, sid) ==
    LET session == SessionObject(sid)
        rec2 == [rec EXCEPT !.session = sid, !.calls = Append(@, "Session.list_line_items")] IN
    \/ \* list_line_items raises: logged and raised again
       /\ Finish(IdleReq, [rec2 EXCEPT !.exc = "list_line_items failed"], Unhandled)
       /\ UNCHANGED <<create_calls, acked>>
    \/ /\ SumCalls < MaxOrders
       /\ create_calls' = [create_calls EXCEPT ![sid] = @ + 1]
       /\ Await(IdleReq, [rec2 EXCEPT !.pc = "create_order", !.seq = create_calls[sid] + 1,
                                !.order_data = CheckoutOrderData(session),
                                !.calls = Append(@, "create_order")])
       /\ UNCHANGED acked

\* the handler up to its first await: construct_event, then the dispatch on
\* the event type
StripeWebhook ==
    /\ Free
    /\ LET rec == [IdleReq EXCEPT !.kind = "webhook", !.calls = <<"Webhook.construct_event">>] IN
       \/ \* except ValueError: the payload does not parse
          /\ Finish(IdleReq, [rec EXCEPT !.event = "ValueError", !.exc = "invalid payload"],
                    HTTPError(400, "Invalid payload"))
          /\ UNCHANGED <<create_calls, acked>>
       \/ \* SignatureVerificationError is no ValueError: it leaves the handler
          /\ Finish(IdleReq, [rec EXCEPT !.event = "SignatureVerificationError", !.exc = "bad signature"],
                    Unhandled)
          /\ UNCHANGED <<create_calls, acked>>
       \/ \* payment_intent.succeeded and every other type are logged
          /\ \E type \in EventTypes \ {"checkout.session.completed"} :
                Finish(IdleReq, [rec EXCEPT !.event = type], Ok("success"))
          /\ UNCHANGED <<create_calls, acked>>
       \/ \E sid \in CheckoutSessionIds :
            HandleCheckoutSessionCompleted([rec EXCEPT !.event = "checkout.session.completed"], sid)
    /\ UNCHANGED <<orders, refunds>>

\* crud.create_order answers
WebhookCreateOrder(h) ==
    /\ Awaits(h, "webhook", "create_order")
    /\ \/ \* logged and raised again: it leaves the handler
          /\ Finish(h, [h EXCEPT !.exc = "create_order failed"], Unhandled)
          /\ UNCHANGED <<orders, acked>>
       \/ /\ orders' = CreateOrder(h.order_data)
          /\ acked' = [acked EXCEPT ![h.session] = @ + 1]
          /\ Finish(h, h, Ok("success"))
    /\ UNCHANGED <<refunds, create_calls>>

\* ---- POST /create-checkout-session --------------------------------------
\* a variant that answers with an internal error
CheckoutExceptInternal(e) == HTTPError(500, e)

\* except Exception as e: raise HTTPException(400, detail=str(e))
CheckoutExcept(e) == HTTPError(400, e)

\* prices.data of stripe.Price.list(product, active=True, limit=1)
PriceLists == {<<>>, <<"price_1">>}

CreateCheckoutSession ==
    /\ Free
    /\ \E user \in Users :
        LET rec == [IdleReq EXCEPT !.kind = "create_checkout_session", !.user = user,
                                   !.calls = <<"Price.list">>] IN
        \/ Finish(IdleReq, [rec EXCEPT !.exc = "price list failed"], CheckoutExcept("price list failed"))
        \/ \E prices \in PriceLists :
             IF prices = <<>>
             THEN Finish(IdleReq, [rec EXCEPT !.event = "no price"],
                         CheckoutExcept(StrHTTPException(400, "No active price found for this product")))
             ELSE LET rec2 == [rec EXCEPT !.calls = Append(@, "Session.create")] IN
                  \/ Finish(IdleReq, [rec2 EXCEPT !.exc = "session create failed"],
                            CheckoutExcept("session create failed"))
                  \/ Finish(IdleReq, rec2, Ok("session_id"))
    /\ UNCHANGED <<orders, refunds, acked, create_calls>>

\* ---- GET /get-product/{product_id} --------------------------------------
GetProduct ==
    /\ Free
    /\ LET rec == [IdleReq EXCEPT !.kind = "get_product", !.calls = <<"Product.retrieve">>] IN
       \/ Finish(IdleReq, [rec EXCEPT !.exc = "product retrieve failed"],
                 HTTPError(400, "product retrieve failed"))
       \/ Finish(IdleReq, rec, Ok("product"))
    /\ UNCHANGED <<orders, refunds, acked, create_calls>>

\* ---- the system ---------------------------------------------------------
Init ==
    /\ orders = <<>>
    /\ refunds = 0
    /\ req = {}
    /\ last = IdleReq
    /\ acked = [s \in CheckoutSessionIds |-> 0]
    /\ create_calls = [s \in CheckoutSessionIds |-> 0]

\* the framework sends the response of the handler that has just finished
SendResponse ==
    /\ ~Sent
    /\ last' = IdleReq
    /\ UNCHANGED <<orders, refunds, req, acked, create_calls>>

Next ==
    \/ SendResponse
    \/ CreatePaymentIntent
    \/ RefundPaymentIntent
    \/ \E h \in req : RefundGetOrder(h)
    \/ \E h \in req : RefundUpdateOrder(h)
    \/ StripeWebhook
    \/ \E h \in req : WebhookCreateOrder(h)
    \/ CreateCheckoutSession
    \/ GetProduct

Spec == Init /\ [][Next]_vars

\* ---- properties ---------------------------------------------------------
\* every request the state holds: the handlers that await and the one that
\* finished last
AllRecs == req \cup {last}

PersistenceCalls == {"create_order", "update_order", "get_order", "get_user"}

NoPersistenceCall(rec) == \A i \in DOMAIN rec.calls : rec.calls[i] \notin PersistenceCalls

\* get_order has answered, with no order or with an order of another user
LookupFailed(rec) ==
    /\ rec.kind = "refund"
    /\ rec.pc = "done"
    /\ Count(rec.calls, "get_order") = 1
    /\ rec.exc # "get_order failed"
    /\ OrderNotFound(rec.order, rec.user)

\* get_order has answered with an order of the caller
LookupFound(rec) ==
    /\ rec.kind = "refund"
    /\ rec.pc \in {"update_order", "done"}
    /\ Count(rec.calls, "get_order") = 1
    /\ rec.exc # "get_order failed"
    /\ rec.order.id # 0
    /\ rec.order.user_id = rec.user

\* C1: a refund request whose order lookup finds no order, or an order of
\* another user, is answered with status 404.
C1_NotFoundIs404 == LookupFailed(last) => last.resp.status = 404

\* C2: a webhook request whose signature does not verify is answered with
\* status 400, makes no persistence call and does not answer success.
C2_BadSignatureIs400 ==
    (last.kind = "webhook" /\ last.event = "SignatureVerificationError")
        => /\ last.resp.status = 400
           /\ NoPersistenceCall(last)
           /\ last.resp.body # "success"

\* C3: when the processor has returned a refund and the order exists and is
\* the caller's, update_order is called exactly once, with the refund's id
\* and with status "refunded" exactly when the refund succeeded, the refund's
\* status when it is another non-empty value, and "no status!" when empty.
C3_UpdateFromRefund ==
    \A rec \in AllRecs :
        (LookupFound(rec) /\ rec.refund # NoRefund)
            => /\ Count(rec.calls, "update_order") = 1
               /\ rec.order_data.stripe_refund_id = rec.refund.id
               /\ (rec.order_data.status = "refunded") <=> (rec.refund.status = "succeeded")
               /\ rec.refund.status \notin {"succeeded", ""} => rec.order_data.status = rec.refund.status
               /\ rec.refund.status = "" => rec.order_data.status = "no status!"

C3_Witness ==
    /\ LookupFound(last)
    /\ last.resp.status = 200
    /\ last.refund.status = ""
    /\ orders[last.order_id].status = "no status!"

\* C4: a checkout-session request for a product with no active price is
\* answered with status 400 and Session.create is not called; when the price
\* lookup or the session creation raises the answer is 400 too.
C4_CheckoutSessionErrors ==
    last.kind = "create_checkout_session"
        => /\ last.event = "no price"
                => last.resp.status = 400 /\ Count(last.calls, "Session.create") = 0
           /\ last.exc # "" => last.resp.status = 400

C4_Witness == last.kind = "create_checkout_session" /\ last.event = "no price"

\* C5: in every endpoint a failure of a processor or persistence call is
\* caught in the handler and answered with status 400, 404 or 500.
C5_AllFailuresCaught ==
    (last.pc = "done" /\ last.exc # "")
        => last.resp.status \in {400, 404, 500} /\ ~last.resp.escaped

\* the order data a completed checkout asks create_order to store
CheckoutOrderAsked(rec) ==
    /\ Count(rec.calls, "create_order") = 1
    /\ rec.order_data.status = "processing"
    /\ rec.order_data.user_id = SessionObject(rec.session).client_reference_id
    /\ rec.order_data.stripe_checkout_session_id = rec.session
    /\ rec.order_data.stripe_payment_intent_id = SessionObject(rec.session).payment_intent

\* a step of a webhook handler
WebhookStep ==
    \/ \E h \in req : h.kind = "webhook" /\ h \notin req'
    \/ \E h \in req' : h.kind = "webhook" /\ h \notin req
    \/ last' # last /\ last'.kind = "webhook"

\* no row the table holds is changed
OrdersKept == \A i \in DOMAIN orders : i \in DOMAIN orders' /\ orders'[i] = orders[i]

\* C6 as stated: every verified checkout.session.completed event has
\* create_order called exactly once with the session's data.
C6_CompletedAlwaysCreates ==
    (last.kind = "webhook" /\ last.event = "checkout.session.completed") => CheckoutOrderAsked(last)

\* C6 amended: a verified checkout.session.completed event whose line-item
\* lookup returns has create_order called exactly once, with status
\* "processing" and the session's user, session id and payment intent; when
\* the lookup raises no persistence call is made; for every other event type
\* no persistence call is made and the answer is success; no step of the
\* webhook changes an order the table holds.
C6_WebhookDispatch ==
    /\ [](\A rec \in AllRecs :
            (rec.kind = "webhook" /\ rec.event \in EventTypes)
                => /\ (rec.event = "checkout.session.completed" /\ rec.exc # "list_line_items failed")
                        => CheckoutOrderAsked(rec)
                   /\ (rec.event = "checkout.session.completed" /\ rec.exc = "list_line_items failed")
                        => NoPersistenceCall(rec)
                   /\ rec.event # "checkout.session.completed"
                        => NoPersistenceCall(rec) /\ rec.resp = Ok("success"))
    /\ [][WebhookStep => OrdersKept]_vars

C6_Witness ==
    /\ last.kind = "webhook"
    /\ last.event = "checkout.session.completed"
    /\ last.resp = Ok("success")
    /\ \E i \in DOMAIN orders : orders[i].stripe_checkout_session_id = last.session
                                /\ orders[i].status = "processing"

\* C7: when Refund.create raises, the answer is status 500 with the
\* exception text as detail, neither get_order nor update_order is called
\* and no order changes.
C7_RefundCreateRaises ==
    /\ [](\A rec \in AllRecs :
            (rec.kind = "refund" /\ rec.exc = "refund failed")
                => /\ rec.resp = HTTPError(500, "refund failed")
                   /\ Count(rec.calls, "get_order") = 0
                   /\ Count(rec.calls, "update_order") = 0)
    /\ [][(last' # last /\ last'.kind = "refund" /\ last'.exc = "refund failed")
            => orders' = orders]_vars

C7_Witness ==
    /\ last.kind = "refund"
    /\ last.exc = "refund failed"
    /\ last.order_id \in DOMAIN orders
    /\ orders[last.order_id].user_id = last.user

\* C8: no deduplication: every completion event answered with success had
\* its own create_order call, so k successful deliveries of one checkout
\* session make k create_order calls for it, and the webhook never looks an
\* order up.
C8_NoDeduplication ==
    /\ \A sid \in CheckoutSessionIds : acked[sid] <= create_calls[sid]
    /\ \A rec \in AllRecs :
        rec.kind = "webhook"
            => /\ Count(rec.calls, "create_order") <= 1
               /\ Count(rec.calls, "get_order") = 0
               /\ (rec.event = "checkout.session.completed" /\ rec.resp = Ok("success"))
                    => Count(rec.calls, "create_order") = 1

C8_Witness ==
    \E sid \in CheckoutSessionIds :
        /\ acked[sid] = 2
        /\ create_calls[sid] = 2
        /\ Cardinality({i \in DOMAIN orders : orders[i].stripe_checkout_session_id = sid}) = 2

\* C9: the processor creates a refund only for an order that exists and is
\* the requesting user's: no refund is created by a request whose order
\* lookup finds no order or an order of another user.
C9_RefundOnlyForOwnedOrder == LookupFailed(last) => last.refund = NoRefund

====
